---- MODULE Spec2Model ----
(***************************************************************************)
(* Model of the Spoken Word session manager (src/src/index.js): the        *)
(* registry of Speech instances kept in step with a mutating document,     *)
(* the single-active-playback and shared-state fan-out handlers, the       *)
(* localStorage-backed utterance options, and the initialize() promise.    *)
(***************************************************************************)
EXTENDS Integers, Sequences, FiniteSets, TLC

\* ------------------------------------------------------------------ bounds
MaxElements == 2        \* element nodes besides the managed root
MaxRecords == 2         \* mutation records queued in one batch
MaxBatch == 3           \* the same where the order within a batch is examined
MaxSpeeches == 3        \* Speech instances constructed in one behaviour
MaxStorageEvents == 1   \* storage events waiting to be dispatched
MaxNum == 2             \* numbers 0..MaxNum stand for pitch / rate values
MaxPeerSpeeches == 2    \* Speech instances of the other same-origin context

\* --------------------------------------------------------------- the nodes
Root == 0                         \* rootElement || document.body
ELEMENT_NODE == 1                 \* Node.ELEMENT_NODE
TEXT_NODE == 3                    \* Node.TEXT_NODE
Elements == 1..MaxElements
TextNode == MaxElements + 1
Nodes == Elements \cup {TextNode}
AllNodes == {Root} \cup Nodes

nodeType(n) == IF n = TextNode THEN TEXT_NODE ELSE ELEMENT_NODE

\* ---------------------------------------------------- JavaScript values
\* Property values are integers: 0..MaxNum are numbers, the negative ones
\* are the non-number values, and VoicesEmpty / VoicesEn are the two
\* languageVoices objects {} and {en: voice}.
Null == -1
Undefined == -2
NaN == -3
VoicesEmpty == 10
VoicesEn == 11

Numbers == 0..MaxNum
NoProps == [k \in {} |-> 0]

STATE_STORAGE_KEY == "spokenWordState"
OtherKey == "otherKey"

DEFAULT_UTTERANCE_OPTIONS == [pitch |-> 1, rate |-> 1, languageVoices |-> VoicesEmpty]

DefaultKeys == <<"pitch", "rate", "languageVoices">>   \* Object.keys( DEFAULT_UTTERANCE_OPTIONS )

\* Object.assign( {}, a, b )
ObjectAssign(a, b) ==
  [k \in (DOMAIN a) \cup (DOMAIN b) |-> IF k \in DOMAIN b THEN b[k] ELSE a[k]]

\* ------------------------------------------------- localStorage and JSON
\* A stored item is null (absent) or a text.  A text is the empty string,
\* a malformed text, or a well-formed JSON text, identified with the JSON
\* document it denotes: an object with its properties, or a non-object.
NoValue == [type |-> "none", props |-> NoProps]
NoItem == [kind |-> "null", value |-> NoValue]
EmptyText == [kind |-> "empty", value |-> NoValue]
MalformedText == [kind |-> "malformed", value |-> NoValue]
JsonText(type, props) == [kind |-> "json", value |-> [type |-> type, props |-> props]]

NonObjectTypes == {"null", "number", "string", "boolean", "array"}

\* JSON.stringify( object ): properties whose value is undefined are
\* omitted, NaN is written as null.
JSONstringify(obj) ==
  LET kept == {k \in DOMAIN obj : obj[k] # Undefined}
  IN JsonText("object", [k \in kept |-> IF obj[k] = NaN THEN Null ELSE obj[k]])

\* JSON.parse( text ): throws SyntaxError on the empty or a malformed text.
JSONparse(text) ==
  IF text.kind = "json" THEN text.value ELSE [type |-> "SyntaxError", props |-> NoProps]

\* ! localStorage.getItem( key ): null and the empty string are falsy.
Falsy(item) == item.kind \in {"null", "empty"}

\* sharedState[ key ]: throws TypeError on null, is undefined on a missing
\* property and on the properties the other non-objects do not have.
Throws(parsed) == parsed.type \in {"SyntaxError", "null"}
GetProp(parsed, key) == IF key \in DOMAIN parsed.props THEN parsed.props[key] ELSE Undefined

\* mutant: a stored value is taken when it is truthy, not when it is defined
Truthy(v) == v \notin {0, Null, Undefined, NaN}

RECURSIVE OverlayKeysTruthy(_, _, _)
OverlayKeysTruthy(options, parsed, keys) ==
  IF keys = <<>> THEN options
  ELSE LET key == Head(keys)
           next == IF Truthy(GetProp(parsed, key))
                   THEN [k \in (DOMAIN options) \cup {key} |->
                           IF k = key THEN GetProp(parsed, key) ELSE options[k]]
                   ELSE options
       IN OverlayKeysTruthy(next, parsed, Tail(keys))

RECURSIVE OverlayKeys(_, _, _)
OverlayKeys(options, parsed, keys) ==
  IF keys = <<>> THEN options
  ELSE LET key == Head(keys)
           next == IF GetProp(parsed, key) # Undefined
                   THEN [k \in (DOMAIN options) \cup {key} |->
                           IF k = key THEN GetProp(parsed, key) ELSE options[k]]
                   ELSE options
       IN OverlayKeys(next, parsed, Tail(keys))

\* mutant: the catch block leaves the item in the store
getUtteranceOptionsNoRemove(item, custom) ==
  LET utteranceOptions == ObjectAssign(DEFAULT_UTTERANCE_OPTIONS, custom)
      parsed == JSONparse(item)
  IN IF Falsy(item) \/ Throws(parsed) THEN [options |-> utteranceOptions, item |-> item]
     ELSE [options |-> OverlayKeys(utteranceOptions, parsed, DefaultKeys), item |-> item]

\* getUtteranceOptions(): the options returned and the item left in the store.
getUtteranceOptions(item, custom) ==
  LET utteranceOptions == ObjectAssign(DEFAULT_UTTERANCE_OPTIONS, custom)
      parsed == JSONparse(item)
  IN IF Falsy(item) THEN [options |-> utteranceOptions, item |-> item]
     ELSE IF Throws(parsed) THEN [options |-> utteranceOptions, item |-> NoItem]
     ELSE [options |-> OverlayKeys(utteranceOptions, parsed, DefaultKeys), item |-> item]

\* ------------------------------------------------------------ the state
VARIABLES
  children,        \* the document tree: node -> sequence of its child nodes
  matching,        \* the elements that match the content selector
  records,         \* mutation records queued for the observer's callback
  transientObs,    \* removed nodes still observed until the callback runs
  observing,       \* mutationObserver.observe( element ) has been called
  readyState,      \* document.readyState
  dclFired,        \* DOMContentLoaded has been dispatched
  dclListener,     \* uponReady is registered for DOMContentLoaded
  called,          \* initialize() has been called
  settleLog,       \* the resolve / reject calls made on the promise
  uponReadyRuns,   \* number of times uponReady has run
  unloadListeners, \* listeners registered for the unload event
  speechSynthesisDefined, \* typeof speechSynthesis, SpeechSynthesisUtterance
  systemSupport,   \* what hasSystemSupport() returns
  customDefaultUtteranceOptions,
  item,            \* localStorage's item under STATE_STORAGE_KEY
  storageEvents,   \* storage events waiting to be dispatched
  speechRootMap,   \* Map: root element -> index of its Speech in speeches
  speeches,        \* every Speech constructed so far, in construction order
  calls,           \* the event handled last and the commands its handler issued
  lastRead,        \* the last direct getUtteranceOptions(): the item found, the options returned
  peer             \* another context of the same origin: its registry, Speeches, storage events

domVars == <<children, matching, records, transientObs, observing>>
loadVars == <<readyState, dclFired, dclListener, called, settleLog, uponReadyRuns,
              unloadListeners, speechSynthesisDefined, systemSupport>>
storeVars == <<customDefaultUtteranceOptions, item, storageEvents, lastRead, peer>>
speechVars == <<speechRootMap, speeches, calls>>
vars == <<domVars, loadVars, storeVars, speechVars>>

\* ------------------------------------------------------------- the tree
HasParent(ch, n) == \E p \in AllNodes : \E i \in 1..Len(ch[p]) : ch[p][i] = n
Parent(ch, n) == CHOOSE p \in AllNodes : \E i \in 1..Len(ch[p]) : ch[p][i] = n

RECURSIVE InclusiveAncestors(_, _)
InclusiveAncestors(ch, n) ==
  {n} \cup (IF HasParent(ch, n) THEN InclusiveAncestors(ch, Parent(ch, n)) ELSE {})

RECURSIVE Preorder(_, _)
RECURSIVE PreorderAll(_, _)
\* n followed by its descendants, in document order
Preorder(ch, n) == <<n>> \o PreorderAll(ch, ch[n])
PreorderAll(ch, ns) ==
  IF ns = <<>> THEN <<>> ELSE Preorder(ch, Head(ns)) \o PreorderAll(ch, Tail(ns))

Range(s) == {s[i] : i \in 1..Len(s)}
Without(s, n) == SelectSeq(s, LAMBDA x : x # n)

\* element.matches( selector )
matches(m, n) == n \in m

\* root.querySelectorAll( selector ): the matching descendants in document order
querySelectorAll(ch, m, root) == SelectSeq(Tail(Preorder(ch, root)), LAMBDA n : matches(m, n))

\* mutant: the root is not looked at, only its descendants
findContentRootsDescendants(ch, m, root) == querySelectorAll(ch, m, root)

findContentRoots(ch, m, root) ==
  IF matches(m, root) THEN <<root>> ELSE querySelectorAll(ch, m, root)

\* ------------------------------------------------- the Speech instances
\* An entry of the log of commands: the operation, the Speech it is issued
\* to (0 when none) and the record passed.
Call(op, speech, arg) == [op |-> op, speech |-> speech, arg |-> arg]

\* new Speech( { rootElement, utteranceOptions, ... } )
SpeechNew(rootElement, utteranceOptions) ==
  [rootElement |-> rootElement, state |-> utteranceOptions, playing |-> FALSE,
   initialized |-> 0, destroyed |-> FALSE]

SpeechInitialize(speech) == [speech EXCEPT !.initialized = @ + 1]
SpeechStop(speech) == [speech EXCEPT !.playing = FALSE]
SpeechSetState(speech, props) == [speech EXCEPT !.state = ObjectAssign(@, props)]
SpeechDestroy(speech) == [speech EXCEPT !.playing = FALSE, !.destroyed = TRUE]

\* ------------------------------------------------ the session manager
\* The part of the state the manager's routines work on.
Manager(map, sp, it, cl) == [map |-> map, speeches |-> sp, item |-> it, calls |-> cl]

\* [ ...speechRootMap.values() ] in the Map's insertion order, which is the
\* order of construction: every entry is set once, with a new Speech.
RECURSIVE SortedSeq(_)
SortedSeq(S) ==
  IF S = {} THEN <<>>
  ELSE LET lo == CHOOSE x \in S : \A y \in S : x <= y
       IN <<lo>> \o SortedSeq(S \ {lo})

values(map) == SortedSeq({map[e] : e \in DOMAIN map})

MapSet(map, key, value) == [e \in (DOMAIN map) \cup {key} |-> IF e = key THEN value ELSE map[e]]
MapDelete(map, key) == [e \in (DOMAIN map) \ {key} |-> map[e]]

\* speech.on( 'change:playing', ... ) of the Speech numbered self.  A Speech
\* that is stopped while it plays emits 'change:playing' with false, which
\* runs its own handler inside the stop() call.
RECURSIVE OnChangePlaying(_, _, _)

\* otherSpeech.stop() and the handler of the event it emits
Stopped(st, otherSpeech) ==
  LET wasPlaying == st.speeches[otherSpeech].playing
      stopped == [st EXCEPT !.speeches[otherSpeech] = SpeechStop(@),
                            !.calls = Append(@, Call("stop", otherSpeech,
                                [playing |-> IF wasPlaying THEN 1 ELSE 0]))]
  IN IF wasPlaying
     THEN OnChangePlaying(
            [stopped EXCEPT !.calls = Append(@, Call("change:playing", otherSpeech,
                                                     [playing |-> 0]))],
            otherSpeech, FALSE)
     ELSE stopped

\* mutant: the loop does not skip the Speech that emitted the event
RECURSIVE StopAll(_, _, _)
StopAll(st, self, others) ==
  IF others = <<>> THEN st
  ELSE StopAll(Stopped(st, Head(others)), self, Tail(others))

RECURSIVE StopOthers(_, _, _)
StopOthers(st, self, others) ==
  IF others = <<>> THEN st
  ELSE LET otherSpeech == Head(others)
           next == IF otherSpeech # self THEN Stopped(st, otherSpeech) ELSE st
       IN StopOthers(next, self, Tail(others))

\* mutant: the handler returns when playing instead of when not playing
OnChangePlayingInverted(st, self, playing) ==
  IF playing THEN st ELSE StopOthers(st, self, values(st.map))

OnChangePlaying(st, self, playing) ==
  IF ~playing THEN st ELSE StopOthers(st, self, values(st.map))

\* speech.on( 'sharedStateChange', ... ) of the Speech numbered self
RECURSIVE SetStateOthers(_, _, _, _)
SetStateOthers(st, self, others, sharedState) ==
  IF others = <<>> THEN st
  ELSE LET otherSpeech == Head(others)
           next == IF otherSpeech # self
                   THEN [st EXCEPT !.speeches[otherSpeech] = SpeechSetState(@, sharedState),
                                   !.calls = Append(@, Call("setState", otherSpeech, sharedState))]
                   ELSE st
       IN SetStateOthers(next, self, Tail(others), sharedState)

\* mutant: the record is pushed to the others but not persisted
OnSharedStateChangeNoPersist(st, self, sharedState) ==
  SetStateOthers(st, self, values(st.map), sharedState)

OnSharedStateChange(st, self, sharedState) ==
  SetStateOthers([st EXCEPT !.item = JSONstringify(sharedState)],
                 self, values(st.map), sharedState)

\* window.addEventListener( 'storage', ... )
RECURSIVE SetStateAll(_, _, _)
SetStateAll(st, all, custom) ==
  IF all = <<>> THEN st
  ELSE LET speech == Head(all)
           got == getUtteranceOptions(st.item, custom)
           next == [st EXCEPT !.item = got.item,
                              !.speeches[speech] = SpeechSetState(@, got.options),
                              !.calls = Append(@, Call("setState", speech, got.options))]
       IN SetStateAll(next, Tail(all), custom)

\* mutant: the event's key and storage area are not looked at
OnStorageAnyKey(st, event, custom) == SetStateAll(st, values(st.map), custom)

\* mutant: the listener leaves the Speeches as they are
OnStorageIgnored(st, event, custom) == st

OnStorage(st, event, custom) ==
  IF STATE_STORAGE_KEY # event.key \/ event.storageArea # "localStorage"
  THEN st
  ELSE SetStateAll(st, values(st.map), custom)

\* mutant: the Speech is constructed with the defaults, the store is not read
addSpeechDefaults(st, rootElement, custom) ==
  LET speech == Len(st.speeches) + 1
      utteranceOptions == ObjectAssign(DEFAULT_UTTERANCE_OPTIONS, custom)
  IN [map |-> MapSet(st.map, rootElement, speech),
      speeches |-> Append(st.speeches,
                          SpeechInitialize(SpeechNew(rootElement, utteranceOptions))),
      item |-> st.item,
      calls |-> st.calls \o <<Call("new", speech, utteranceOptions),
                              Call("set", speech, NoProps),
                              Call("on:change:playing", speech, NoProps),
                              Call("on:sharedStateChange", speech, NoProps),
                              Call("initialize", speech, NoProps)>>]

\* new Speech( ... ), speechRootMap.set( ... ), the wiring of the two
\* handlers and speech.initialize()
addSpeech(st, rootElement, custom) ==
  LET got == getUtteranceOptions(st.item, custom)
      speech == Len(st.speeches) + 1
  IN [map |-> MapSet(st.map, rootElement, speech),
      speeches |-> Append(st.speeches,
                          SpeechInitialize(SpeechNew(rootElement, got.options))),
      item |-> got.item,
      calls |-> st.calls \o <<Call("new", speech, got.options),
                              Call("set", speech, NoProps),
                              Call("on:change:playing", speech, NoProps),
                              Call("on:sharedStateChange", speech, NoProps),
                              Call("initialize", speech, NoProps)>>]

\* mutant: the elements already added are not skipped
createSpeechAlways(st, rootElement, custom) == addSpeech(st, rootElement, custom)

\* the body of the loop of createSpeeches
createSpeech(st, rootElement, custom) ==
  IF rootElement \in DOMAIN st.map
  THEN [st EXCEPT !.calls = Append(@, Call("has", st.map[rootElement], NoProps))]
  ELSE addSpeech(st, rootElement, custom)

RECURSIVE createEach(_, _, _)
createEach(st, rootElements, custom) ==
  IF rootElements = <<>> THEN st
  ELSE createEach(createSpeech(st, Head(rootElements), custom), Tail(rootElements), custom)

createSpeeches(st, ch, m, element, custom) ==
  createEach(st, findContentRoots(ch, m, element), custom)

\* mutant: the Speech is destroyed and its entry stays in the map
destroySpeechKeepEntry(st, rootElement) ==
  IF rootElement \in DOMAIN st.map
  THEN LET speech == st.map[rootElement]
       IN [st EXCEPT !.speeches[speech] = SpeechDestroy(@),
                     !.calls = Append(@, Call("destroy", speech, NoProps))]
  ELSE st

\* the body of the loop of destroySpeeches
destroySpeech(st, rootElement) ==
  IF rootElement \in DOMAIN st.map
  THEN LET speech == st.map[rootElement]
       IN [st EXCEPT !.speeches[speech] = SpeechDestroy(@),
                     !.calls = st.calls \o <<Call("destroy", speech, NoProps),
                                             Call("delete", speech, NoProps)>>,
                     !.map = MapDelete(@, rootElement)]
  ELSE st

RECURSIVE destroyEach(_, _)
destroyEach(st, speechRoots) ==
  IF speechRoots = <<>> THEN st
  ELSE destroyEach(destroySpeech(st, Head(speechRoots)), Tail(speechRoots))

destroySpeeches(st, ch, m, element) ==
  destroyEach(st, findContentRoots(ch, m, element))

\* the MutationObserver callback
ElementsOf(nodes) == SelectSeq(nodes, LAMBDA node : nodeType(node) = ELEMENT_NODE)

RECURSIVE createForAdded(_, _, _, _, _)
createForAdded(st, ch, m, addedNodes, custom) ==
  IF addedNodes = <<>> THEN st
  ELSE createForAdded(createSpeeches(st, ch, m, Head(addedNodes), custom),
                      ch, m, Tail(addedNodes), custom)

RECURSIVE destroyForRemoved(_, _, _, _)
destroyForRemoved(st, ch, m, removedNodes) ==
  IF removedNodes = <<>> THEN st
  ELSE destroyForRemoved(destroySpeeches(st, ch, m, Head(removedNodes)),
                         ch, m, Tail(removedNodes))

\* mutant: the records are worked through from the last to the first
RECURSIVE OnMutationsReversed(_, _, _, _, _)
OnMutationsReversed(st, ch, m, mutations, custom) ==
  IF mutations = <<>> THEN st
  ELSE LET mutation == mutations[Len(mutations)]
           added == createForAdded(st, ch, m, ElementsOf(mutation.addedNodes), custom)
           removed == destroyForRemoved(added, ch, m, ElementsOf(mutation.removedNodes))
       IN OnMutationsReversed(removed, ch, m, SubSeq(mutations, 1, Len(mutations) - 1),
                              custom)

RECURSIVE OnMutations(_, _, _, _, _)
OnMutations(st, ch, m, mutations, custom) ==
  IF mutations = <<>> THEN st
  ELSE LET mutation == Head(mutations)
           added == createForAdded(st, ch, m, ElementsOf(mutation.addedNodes), custom)
           removed == destroyForRemoved(added, ch, m, ElementsOf(mutation.removedNodes))
       IN OnMutations(removed, ch, m, Tail(mutations), custom)

\* Another browsing context of the same origin runs the same module on its
\* own document: its speechRootMap, its Speech instances, its caller's
\* defaults and the storage events waiting to be dispatched to it.
Context(map, sp, custom, events) ==
  [map |-> map, speeches |-> sp, custom |-> custom, storageEvents |-> events]

\* no other context is open
NoPeer == Context(NoProps, <<>>, NoProps, <<>>)

\* -------------------------------------------------------- initial state
SharedStates ==
  {[pitch |-> 1, rate |-> MaxNum, languageVoices |-> VoicesEmpty],
   [pitch |-> 0, rate |-> 1, languageVoices |-> VoicesEn]}

CallerDefaults == {DEFAULT_UTTERANCE_OPTIONS, [rate |-> MaxNum]}

ExternalTexts ==
  {JSONstringify(r) : r \in SharedStates}
    \cup {MalformedText, JsonText("object", [pitch |-> MaxNum]), NoItem}

Init ==
  /\ children = [n \in AllNodes |-> <<>>]
  /\ matching \in {1..k : k \in 0..MaxElements}
  /\ records = <<>>
  /\ transientObs = {}
  /\ observing = FALSE
  /\ readyState = "loading"
  /\ dclFired = FALSE
  /\ dclListener = FALSE
  /\ called = FALSE
  /\ settleLog = <<>>
  /\ uponReadyRuns = 0
  /\ unloadListeners = 0
  /\ speechSynthesisDefined \in BOOLEAN
  /\ systemSupport \in BOOLEAN
  /\ customDefaultUtteranceOptions = NoProps
  /\ item = NoItem
  /\ storageEvents = <<>>
  /\ speechRootMap = NoProps
  /\ speeches = <<>>
  /\ calls = <<>>
  /\ lastRead = [item |-> NoItem, options |-> NoProps]
  /\ peer = NoPeer

\* ------------------------------------------------------------ start-up
Apply(st) ==
  /\ Len(st.speeches) <= MaxSpeeches
  /\ speechRootMap' = st.map
  /\ speeches' = st.speeches
  /\ item' = st.item
  /\ calls' = st.calls

\* mutant: uponReady registers no listener for the unload event
uponReadyNoUnload(custom, event, settled) ==
  /\ unloadListeners' = unloadListeners
  /\ Apply(createSpeeches(Manager(speechRootMap, speeches, item, <<event>>),
                          children, matching, Root, custom))
  /\ observing' = TRUE
  /\ settleLog' = Append(settled, "resolve")
  /\ uponReadyRuns' = uponReadyRuns + 1

\* uponReady, run with the caller's defaults custom, the log started by event
\* and the promise's settle calls so far
uponReady(custom, event, settled) ==
  /\ unloadListeners' = unloadListeners + 1
  /\ Apply(createSpeeches(Manager(speechRootMap, speeches, item, <<event>>),
                          children, matching, Root, custom))
  /\ observing' = TRUE
  /\ settleLog' = Append(settled, "resolve")
  /\ uponReadyRuns' = uponReadyRuns + 1

\* mutant: the two capability checks in the other order
RejectionSwapped ==
  IF ~systemSupport THEN <<"system_not_supported">>
  ELSE IF ~speechSynthesisDefined THEN <<"speech_synthesis_not_supported">>
  ELSE <<>>

\* the reject call the promise's executor makes before it returns, if any
Rejection ==
  IF ~speechSynthesisDefined THEN <<"speech_synthesis_not_supported">>
  ELSE IF ~systemSupport THEN <<"system_not_supported">>
  ELSE <<>>

\* the rest of the executor: uponReady now, or on DOMContentLoaded
WhenReady(defaultUtteranceOptions, settled) ==
  IF readyState = "complete"
  THEN /\ uponReady(defaultUtteranceOptions, Call("initialize()", 0, NoProps), settled)
       /\ UNCHANGED dclListener
  ELSE /\ dclListener' = TRUE
       /\ settleLog' = settled
       /\ calls' = <<Call("initialize()", 0, NoProps)>>
       /\ UNCHANGED <<observing, uponReadyRuns, unloadListeners, item, speechRootMap,
                      speeches>>

\* mutant: the executor goes on after it has rejected
initializeNoReturn(defaultUtteranceOptions) ==
  /\ ~called
  /\ called' = TRUE
  /\ customDefaultUtteranceOptions' = defaultUtteranceOptions
  /\ UNCHANGED <<children, matching, records, transientObs, readyState, dclFired,
                 speechSynthesisDefined, systemSupport, storageEvents, lastRead, peer>>
  /\ WhenReady(defaultUtteranceOptions, settleLog \o Rejection)

initialize(defaultUtteranceOptions) ==
  /\ ~called
  /\ called' = TRUE
  /\ customDefaultUtteranceOptions' = defaultUtteranceOptions
  /\ UNCHANGED <<children, matching, records, transientObs, readyState, dclFired,
                 speechSynthesisDefined, systemSupport, storageEvents, lastRead, peer>>
  /\ IF Rejection # <<>>
     THEN /\ settleLog' = settleLog \o Rejection
          /\ calls' = <<Call("initialize()", 0, NoProps)>>
          /\ UNCHANGED <<observing, dclListener, uponReadyRuns, unloadListeners,
                         item, speechRootMap, speeches>>
     ELSE WhenReady(defaultUtteranceOptions, settleLog)

Start == \E defaultUtteranceOptions \in CallerDefaults : initialize(defaultUtteranceOptions)

\* the document's load phases
DocInteractive ==
  /\ readyState = "loading"
  /\ readyState' = "interactive"
  /\ calls' = <<>>
  /\ UNCHANGED <<domVars, dclFired, dclListener, called, settleLog, uponReadyRuns,
                 unloadListeners, speechSynthesisDefined, systemSupport, storeVars,
                 speechRootMap, speeches>>

DOMContentLoaded ==
  /\ readyState = "interactive"
  /\ ~dclFired
  /\ dclFired' = TRUE
  /\ UNCHANGED <<children, matching, records, transientObs, readyState, dclListener,
                 called, speechSynthesisDefined, systemSupport,
                 customDefaultUtteranceOptions, storageEvents, lastRead, peer>>
  /\ IF dclListener
     THEN uponReady(customDefaultUtteranceOptions, Call("DOMContentLoaded", 0, NoProps),
                    settleLog)
     ELSE /\ calls' = <<>>
          /\ UNCHANGED <<observing, settleLog, uponReadyRuns, unloadListeners,
                         item, speechRootMap, speeches>>

DocComplete ==
  /\ readyState = "interactive"
  /\ dclFired
  /\ readyState' = "complete"
  /\ calls' = <<>>
  /\ UNCHANGED <<domVars, dclFired, dclListener, called, settleLog, uponReadyRuns,
                 unloadListeners, speechSynthesisDefined, systemSupport, storeVars,
                 speechRootMap, speeches>>

\* ------------------------------------------------- document mutations
\* A mutation at target is recorded when the observer watches the managed
\* root's subtree and target is in it, or under a node removed from it
\* since the last callback (a transient registered observer).
Observed(target) ==
  /\ observing
  /\ InclusiveAncestors(children, target) \cap ({Root} \cup transientObs) # {}

MutationRecord(target, addedNodes, removedNodes) ==
  [target |-> target, addedNodes |-> addedNodes, removedNodes |-> removedNodes]

DomUnchanged ==
  /\ calls' = <<>>
  /\ UNCHANGED <<matching, observing, loadVars, storeVars, speechRootMap, speeches>>

\* parent.appendChild( node ): node is first removed from its old parent;
\* at most limit records are queued
appendChildWithin(limit, parent, node) ==
  /\ nodeType(parent) = ELEMENT_NODE
  /\ node \notin InclusiveAncestors(children, parent)
  /\ LET moved == HasParent(children, node)
         old == Parent(children, node)
         removal == IF moved /\ Observed(old)
                    THEN <<MutationRecord(old, <<>>, <<node>>)>> ELSE <<>>
         insertion == IF Observed(parent)
                      THEN <<MutationRecord(parent, <<node>>, <<>>)>> ELSE <<>>
         detached == IF moved THEN [children EXCEPT ![old] = Without(@, node)]
                     ELSE children
     IN /\ records' = records \o removal \o insertion
        /\ Len(records') <= limit
        /\ transientObs' = IF removal # <<>> THEN transientObs \cup {node} ELSE transientObs
        /\ children' = [detached EXCEPT ![parent] = Append(@, node)]
  /\ DomUnchanged

appendChild(parent, node) == appendChildWithin(MaxRecords, parent, node)

\* node.parentNode.removeChild( node ); at most limit records are queued
removeChildWithin(limit, node) ==
  /\ HasParent(children, node)
  /\ LET old == Parent(children, node)
         removal == IF Observed(old)
                    THEN <<MutationRecord(old, <<>>, <<node>>)>> ELSE <<>>
     IN /\ records' = records \o removal
        /\ Len(records') <= limit
        /\ transientObs' = IF removal # <<>> THEN transientObs \cup {node} ELSE transientObs
        /\ children' = [children EXCEPT ![old] = Without(@, node)]
  /\ DomUnchanged

removeChild(node) == removeChildWithin(MaxRecords, node)

\* parent.replaceChild( node, child ) with a node that has no parent:
\* one record carries the added and the removed node
replaceChild(parent, node, child) ==
  /\ node # child
  /\ ~HasParent(children, node)
  /\ node \notin InclusiveAncestors(children, parent)
  /\ child \in Range(children[parent])
  /\ LET change == IF Observed(parent)
                   THEN <<MutationRecord(parent, <<node>>, <<child>>)>> ELSE <<>>
     IN /\ records' = records \o change
        /\ Len(records') <= MaxRecords
        /\ transientObs' = IF change # <<>> THEN transientObs \cup {child} ELSE transientObs
        /\ children' = [children EXCEPT
                          ![parent] = [i \in 1..Len(@) |-> IF @[i] = child THEN node ELSE @[i]]]
  /\ DomUnchanged

Mutate ==
  \/ \E parent \in AllNodes, node \in Nodes : appendChild(parent, node)
  \/ \E node \in Nodes : removeChild(node)
  \/ \E parent \in AllNodes, node \in Nodes, child \in Nodes : replaceChild(parent, node, child)

\* the MutationObserver callback, run on the records of one batch
MutationCallback ==
  /\ records # <<>>
  /\ Apply(OnMutations(Manager(speechRootMap, speeches, item,
                               <<Call("mutations", 0, NoProps)>>),
                       children, matching, records, customDefaultUtteranceOptions))
  /\ records' = <<>>
  /\ transientObs' = {}
  /\ UNCHANGED <<children, matching, observing, loadVars,
                 customDefaultUtteranceOptions, storageEvents, lastRead, peer>>

\* --------------------------------------------------- coordinator events
Live == {s \in 1..Len(speeches) : ~speeches[s].destroyed}

\* Speech s starts or ends playing and emits 'change:playing'
ChangePlaying(s, playing) ==
  /\ records = <<>>
  /\ speeches[s].playing # playing
  /\ Apply(OnChangePlaying(
       Manager(speechRootMap, [speeches EXCEPT ![s].playing = playing], item,
               <<Call("change:playing", s, [playing |-> IF playing THEN 1 ELSE 0])>>),
       s, playing))
  /\ UNCHANGED <<domVars, loadVars, customDefaultUtteranceOptions, storageEvents,
                 lastRead, peer>>

\* Speech s takes the preferences sharedState and emits 'sharedStateChange'
EmitSharedState(s, sharedState) ==
  /\ records = <<>>
  /\ Apply(OnSharedStateChange(
       Manager(speechRootMap, [speeches EXCEPT ![s] = SpeechSetState(@, sharedState)],
               item, <<Call("sharedStateChange", s, sharedState)>>),
       s, sharedState))
  /\ UNCHANGED <<domVars, loadVars, customDefaultUtteranceOptions, storageEvents,
                 lastRead>>

SharedStateChange(s, sharedState) ==
  /\ EmitSharedState(s, sharedState)
  /\ UNCHANGED peer

\* -------------------------------------------------------- page unload
\* The window's unload event: every listener registered for it runs and
\* calls speechSynthesis.cancel().  The page is discarded afterwards.
Unloaded == calls # <<>> /\ calls[1].op = "unload"
PageAlive == ~Unloaded

Unload ==
  /\ PageAlive
  /\ calls' = <<Call("unload", 0, NoProps)>>
                \o [i \in 1..unloadListeners |-> Call("cancel", 0, NoProps)]
  /\ UNCHANGED <<domVars, loadVars, storeVars, speechRootMap, speeches>>

\* ------------------------------------------------------ the shared store
StorageEvent(key, storageArea) == [key |-> key, storageArea |-> storageArea]

StoreUnchanged ==
  /\ calls' = <<>>
  /\ UNCHANGED <<domVars, loadVars, customDefaultUtteranceOptions, lastRead, peer,
                 speechRootMap, speeches>>

\* another context writes or removes the item under STATE_STORAGE_KEY
ExternalWrite(text) ==
  /\ Len(storageEvents) < MaxStorageEvents
  /\ item' = text
  /\ storageEvents' = Append(storageEvents, StorageEvent(STATE_STORAGE_KEY, "localStorage"))
  /\ StoreUnchanged

\* another context writes another key, or the same key of sessionStorage
ExternalOther(event) ==
  /\ Len(storageEvents) < MaxStorageEvents
  /\ storageEvents' = Append(storageEvents, event)
  /\ item' = item
  /\ StoreUnchanged

\* the 'storage' event is dispatched in this context
StorageDispatch ==
  /\ records = <<>>
  /\ storageEvents # <<>>
  /\ storageEvents' = Tail(storageEvents)
  /\ Apply(OnStorage(Manager(speechRootMap, speeches, item,
                             <<Call("storage", 0, [own |-> IF Head(storageEvents) =
                                 StorageEvent(STATE_STORAGE_KEY, "localStorage") THEN 1 ELSE 0])>>),
                     Head(storageEvents), customDefaultUtteranceOptions))
  /\ UNCHANGED <<domVars, loadVars, customDefaultUtteranceOptions, lastRead, peer>>

OtherEvents ==
  {StorageEvent(OtherKey, "localStorage"), StorageEvent(STATE_STORAGE_KEY, "sessionStorage")}

\* getUtteranceOptions() applied to the store as it stands
ReadOptions ==
  /\ LET got == getUtteranceOptions(item, customDefaultUtteranceOptions)
     IN /\ lastRead' = [item |-> item, options |-> got.options]
        /\ item' = got.item
  /\ calls' = <<Call("getUtteranceOptions()", 0, NoProps)>>
  /\ UNCHANGED <<domVars, loadVars, customDefaultUtteranceOptions, storageEvents,
                 speechRootMap, speeches, peer>>

\* findContentRoots( root, selector ) called on the document as it stands
Locate(root) ==
  /\ calls' = <<Call("findContentRoots", 0,
                     [root |-> root, found |-> findContentRoots(children, matching, root)])>>
  /\ UNCHANGED <<domVars, loadVars, storeVars, speechRootMap, speeches>>

\* ------------------------------------------------ two contexts, one store
\* localStorage.setItem in one context queues a storage event in the other
\* one when it changes the item.
Notified(events, before, after) ==
  IF after # before
  THEN Append(events, StorageEvent(STATE_STORAGE_KEY, "localStorage"))
  ELSE events

\* a Speech of this context emits 'sharedStateChange' while the peer is open
TabSharedStateChange(s, sharedState) ==
  /\ Len(peer.storageEvents) < MaxStorageEvents
  /\ EmitSharedState(s, sharedState)
  /\ peer' = [peer EXCEPT !.storageEvents = Notified(@, item, item')]

\* Speech s of the peer emits 'sharedStateChange': the peer's handler runs
PeerSharedStateChange(s, sharedState) ==
  /\ Len(storageEvents) < MaxStorageEvents
  /\ LET st == OnSharedStateChange(
                 Manager(peer.map, [peer.speeches EXCEPT ![s] = SpeechSetState(@, sharedState)],
                         item, <<>>),
                 s, sharedState)
     IN /\ peer' = [peer EXCEPT !.speeches = st.speeches]
        /\ item' = st.item
        /\ storageEvents' = Notified(storageEvents, item, st.item)
  /\ calls' = <<Call("peer:sharedStateChange", s, sharedState)>>
  /\ UNCHANGED <<domVars, loadVars, customDefaultUtteranceOptions, lastRead,
                 speechRootMap, speeches>>

\* the 'storage' event is dispatched in the peer: the peer's listener runs
PeerStorageDispatch ==
  /\ peer.storageEvents # <<>>
  /\ LET st == OnStorage(Manager(peer.map, peer.speeches, item, <<>>),
                         Head(peer.storageEvents), peer.custom)
     IN /\ peer' = [peer EXCEPT !.speeches = st.speeches,
                                !.storageEvents = Tail(@)]
        /\ item' = st.item
  /\ calls' = <<Call("peer:storage", 0, NoProps)>>
  /\ UNCHANGED <<domVars, loadVars, customDefaultUtteranceOptions, lastRead,
                 storageEvents, speechRootMap, speeches>>

\* ------------------------------------------------------ specifications
\* The registry and the start-up: the document loads and mutates freely.
Next ==
  \/ Start
  \/ DocInteractive
  \/ DOMContentLoaded
  \/ DocComplete
  \/ Mutate
  \/ MutationCallback

Spec == Init /\ [][Next]_vars

\* The same with the scheduling of the document's load events: each phase
\* of the load is reached, and a queued batch of records is delivered.
SpecLive ==
  /\ Spec
  /\ WF_vars(DocInteractive)
  /\ WF_vars(DOMContentLoaded)
  /\ WF_vars(DocComplete)
  /\ WF_vars(MutationCallback)

\* The coordination of the Speech instances: a loaded document on a
\* supported host, whose elements are content regions added to and removed
\* from the managed root.
InitEvents ==
  /\ children = [n \in AllNodes |-> <<>>]
  /\ matching = Elements
  /\ records = <<>>
  /\ transientObs = {}
  /\ observing = FALSE
  /\ readyState = "complete"
  /\ dclFired = TRUE
  /\ dclListener = FALSE
  /\ called = FALSE
  /\ settleLog = <<>>
  /\ uponReadyRuns = 0
  /\ unloadListeners = 0
  /\ speechSynthesisDefined = TRUE
  /\ systemSupport = TRUE
  /\ customDefaultUtteranceOptions = NoProps
  /\ item = NoItem
  /\ storageEvents = <<>>
  /\ speechRootMap = NoProps
  /\ speeches = <<>>
  /\ calls = <<>>
  /\ lastRead = [item |-> NoItem, options |-> NoProps]
  /\ peer = NoPeer

AddRegion == \E node \in Elements : appendChild(Root, node)
RemoveRegion == \E node \in Elements : removeChild(node)

NextEvents ==
  \/ Start
  \/ AddRegion
  \/ RemoveRegion
  \/ MutationCallback
  \/ \E s \in Live, playing \in BOOLEAN : ChangePlaying(s, playing)
  \/ \E s \in Live, sharedState \in SharedStates : SharedStateChange(s, sharedState)
  \/ \E text \in ExternalTexts : ExternalWrite(text)
  \/ \E event \in OtherEvents : ExternalOther(event)
  \/ StorageDispatch

SpecEvents == InitEvents /\ [][NextEvents]_vars

\* The effective preferences as a function of the stored item and the
\* caller's defaults.
StoreKeys == {"pitch", "rate", "languageVoices", "voice"}
StoredValues == Numbers \cup {Null}
CallerValues == {MaxNum, Undefined}
StoredObjects == UNION {[keys -> StoredValues] : keys \in SUBSET StoreKeys}
CallerObjects == UNION {[keys -> CallerValues] : keys \in SUBSET StoreKeys}
StoredItems ==
  {NoItem, EmptyText, MalformedText}
    \cup {JsonText(type, NoProps) : type \in NonObjectTypes}
    \cup {JsonText("object", props) : props \in StoredObjects}

InitStore ==
  /\ children = [n \in AllNodes |-> <<>>]
  /\ matching = {}
  /\ records = <<>>
  /\ transientObs = {}
  /\ observing = FALSE
  /\ readyState = "loading"
  /\ dclFired = FALSE
  /\ dclListener = FALSE
  /\ called = FALSE
  /\ settleLog = <<>>
  /\ uponReadyRuns = 0
  /\ unloadListeners = 0
  /\ speechSynthesisDefined = TRUE
  /\ systemSupport = TRUE
  /\ customDefaultUtteranceOptions \in CallerObjects
  /\ item \in StoredItems
  /\ storageEvents = <<>>
  /\ speechRootMap = NoProps
  /\ speeches = <<>>
  /\ calls = <<>>
  /\ lastRead = [item |-> NoItem, options |-> NoProps]
  /\ peer = NoPeer

NextStore == ReadOptions

SpecStore == InitStore /\ [][NextStore]_vars

\* The content locator as a function of the tree: the document is built
\* freely and findContentRoots is applied to the root and to every element.
NextLocate ==
  \/ Mutate
  \/ \E root \in {Root} \cup Elements : Locate(root)

SpecLocate == Init /\ [][NextLocate]_vars

\* The registry over nested regions: a loaded document on a supported host
\* whose elements all match the selector and are inserted under the managed
\* root or under an element of its subtree, moved within it and removed.
InsertInDocument ==
  \E parent \in {Root} \cup Elements, node \in Elements :
    /\ Root \in InclusiveAncestors(children, parent)
    /\ appendChild(parent, node)

NextRegions ==
  \/ Start
  \/ InsertInDocument
  \/ RemoveRegion
  \/ MutationCallback

SpecRegions == InitEvents /\ [][NextRegions]_vars

\* The handlers wired by createSpeeches stay on a Speech for good: there is
\* no call that takes them off, in destroySpeeches or elsewhere.  Here every
\* Speech constructed so far emits its events, the destroyed ones too.
NextDangling ==
  \/ Start
  \/ AddRegion
  \/ RemoveRegion
  \/ MutationCallback
  \/ \E s \in 1..Len(speeches), playing \in BOOLEAN : ChangePlaying(s, playing)
  \/ \E s \in 1..Len(speeches), sharedState \in SharedStates : SharedStateChange(s, sharedState)

SpecDangling == InitEvents /\ [][NextDangling]_vars

\* Two contexts of one origin: this one starts on a loaded document and gets
\* its regions by mutations; the peer has started on a document with
\* MaxPeerSpeeches regions while the store was empty.  The Speeches of both
\* emit preference changes, and the storage events are dispatched in any order.
PeerStarted ==
  LET st == createEach(Manager(NoProps, <<>>, NoItem, <<>>),
                       [i \in 1..MaxPeerSpeeches |-> i], NoProps)
  IN Context(st.map, st.speeches, NoProps, <<>>)

InitTabs ==
  /\ children = [n \in AllNodes |-> <<>>]
  /\ matching = Elements
  /\ records = <<>>
  /\ transientObs = {}
  /\ observing = FALSE
  /\ readyState = "complete"
  /\ dclFired = TRUE
  /\ dclListener = FALSE
  /\ called = FALSE
  /\ settleLog = <<>>
  /\ uponReadyRuns = 0
  /\ unloadListeners = 0
  /\ speechSynthesisDefined = TRUE
  /\ systemSupport = TRUE
  /\ customDefaultUtteranceOptions = NoProps
  /\ item = NoItem
  /\ storageEvents = <<>>
  /\ speechRootMap = NoProps
  /\ speeches = <<>>
  /\ calls = <<>>
  /\ lastRead = [item |-> NoItem, options |-> NoProps]
  /\ peer = PeerStarted

PeerLive == {s \in 1..Len(peer.speeches) : ~peer.speeches[s].destroyed}

NextTabs ==
  \/ Start
  \/ AddRegion
  \/ RemoveRegion
  \/ MutationCallback
  \/ \E s \in Live, sharedState \in SharedStates : TabSharedStateChange(s, sharedState)
  \/ \E s \in PeerLive, sharedState \in SharedStates : PeerSharedStateChange(s, sharedState)
  \/ StorageDispatch
  \/ PeerStorageDispatch

SpecTabs == InitTabs /\ [][NextTabs]_vars

\* The page from its load to its unload: start-up in any load phase and on
\* any host, regions added and removed, Speeches playing, and the unload
\* event at any moment, after which nothing runs.
NextUnload ==
  \/ Unload
  \/ PageAlive /\ Start
  \/ PageAlive /\ DocInteractive
  \/ PageAlive /\ DOMContentLoaded
  \/ PageAlive /\ DocComplete
  \/ PageAlive /\ AddRegion
  \/ PageAlive /\ RemoveRegion
  \/ PageAlive /\ MutationCallback
  \/ PageAlive /\ \E s \in Live, playing \in BOOLEAN : ChangePlaying(s, playing)

SpecUnload == Init /\ [][NextUnload]_vars

\* The order within a batch: a loaded document on a supported host whose
\* elements, matching or not, are appended anywhere and removed, with up to
\* MaxBatch records in one batch.
InitBatch ==
  /\ children = [n \in AllNodes |-> <<>>]
  /\ matching \in {1..k : k \in 0..MaxElements}
  /\ records = <<>>
  /\ transientObs = {}
  /\ observing = FALSE
  /\ readyState = "complete"
  /\ dclFired = TRUE
  /\ dclListener = FALSE
  /\ called = FALSE
  /\ settleLog = <<>>
  /\ uponReadyRuns = 0
  /\ unloadListeners = 0
  /\ speechSynthesisDefined = TRUE
  /\ systemSupport = TRUE
  /\ customDefaultUtteranceOptions = NoProps
  /\ item = NoItem
  /\ storageEvents = <<>>
  /\ speechRootMap = NoProps
  /\ speeches = <<>>
  /\ calls = <<>>
  /\ lastRead = [item |-> NoItem, options |-> NoProps]
  /\ peer = NoPeer

NextBatch ==
  \/ Start
  \/ \E parent \in {Root} \cup Elements, node \in Elements :
       appendChildWithin(MaxBatch, parent, node)
  \/ \E node \in Elements : removeChildWithin(MaxBatch, node)
  \/ MutationCallback

SpecBatch == InitBatch /\ [][NextBatch]_vars

\* ================================================================ claims
Resolved == "resolve" \in Range(settleLog)
Capable == speechSynthesisDefined /\ systemSupport
MatchingUnderRoot == {n \in Range(Preorder(children, Root)) : matches(matching, n)}
Registered == {speechRootMap[e] : e \in DOMAIN speechRootMap}
Event == IF calls = <<>> THEN "" ELSE calls[1].op
CallsTo(op, s) == {i \in 1..Len(calls) : calls[i].op = op /\ calls[i].speech = s}

\* C1: once start() has resolved and every queued batch of mutation records
\* has been handled, the registry's keys are exactly the elements under the
\* managed root that match the content selector.
C1_RegistryEqualsMatching ==
  (Resolved /\ records = <<>>) => DOMAIN speechRootMap = MatchingUnderRoot

\* C2: at most one registered Speech is playing; when Speech b starts
\* playing, every other registered Speech receives exactly one stop command
\* and b receives none and is still playing.
C2_SingleActivePlayback ==
  /\ Cardinality({s \in Registered : speeches[s].playing}) <= 1
  /\ (Event = "change:playing" /\ calls[1].arg.playing = 1
        /\ calls[1].speech \in Registered) =>
       LET b == calls[1].speech
       IN /\ speeches[b].playing
          /\ CallsTo("stop", b) = {}
          /\ \A a \in Registered \ {b} :
               Cardinality(CallsTo("stop", a)) = 1 /\ ~speeches[a].playing

\* a Speech started playing while another one was playing, which was stopped
C2_Witness ==
  /\ Event = "change:playing"
  /\ speeches[calls[1].speech].playing
  /\ \E i \in 2..Len(calls) : calls[i].op = "stop" /\ calls[i].arg.playing = 1

\* C3: when the registered Speech a emits sharedStateChange with the record
\* R, then at the end of the handler the store holds R, every other
\* registered Speech has received setState( R ) exactly once, and a has
\* received no setState.
C3_PreferenceConvergence ==
  (Event = "sharedStateChange" /\ calls[1].speech \in Registered) =>
     LET a == calls[1].speech
         R == calls[1].arg
     IN /\ JSONparse(item) = [type |-> "object", props |-> R]
        /\ \A i \in 2..Len(calls) :
             /\ calls[i].op = "setState"
             /\ calls[i].speech \in Registered \ {a}
             /\ calls[i].arg = R
        /\ \A o \in Registered \ {a} : Cardinality(CallsTo("setState", o)) = 1

\* a Speech emitted its preferences while another one was registered
C3_Witness ==
  /\ Event = "sharedStateChange"
  /\ calls[1].speech \in Registered
  /\ Cardinality(Registered) >= 2
  /\ Len(calls) = Cardinality(Registered)

\* the stored record overlaid on the caller's defaults overlaid on the
\* built-in defaults, key by key
EffectiveOptions(it, custom) ==
  [k \in (DOMAIN DEFAULT_UTTERANCE_OPTIONS) \cup (DOMAIN custom) |->
     IF /\ k \in DOMAIN DEFAULT_UTTERANCE_OPTIONS
        /\ it.kind = "json"
        /\ it.value.type = "object"
        /\ k \in DOMAIN it.value.props
     THEN it.value.props[k]
     ELSE IF k \in DOMAIN custom THEN custom[k]
     ELSE DEFAULT_UTTERANCE_OPTIONS[k]]

C4_StorageHandled ==
  /\ (Event = "storage" /\ calls[1].arg.own = 1) =>
       /\ \A i \in 2..Len(calls) :
            /\ calls[i].op = "setState"
            /\ calls[i].speech \in Registered
            /\ calls[i].arg = EffectiveOptions(item, customDefaultUtteranceOptions)
       /\ \A s \in Registered : Cardinality(CallsTo("setState", s)) = 1
  /\ (Event = "storage" /\ calls[1].arg.own = 0) => Len(calls) = 1

\* C4: when another context has written the store's key, every registered
\* Speech receives setState with the stored record overlaid on the defaults,
\* once; a storage event of another key or area changes nothing; and the
\* write of a sharedStateChange handler queues no storage event here.
C4_CrossTab ==
  /\ []C4_StorageHandled
  /\ [][Event' = "sharedStateChange" => storageEvents' = storageEvents]_vars

\* another context stored a record and two registered Speeches received it
C4_Witness ==
  /\ Event = "storage"
  /\ calls[1].arg.own = 1
  /\ item.kind = "json"
  /\ Cardinality(Registered) >= 2
  /\ Len(calls) = 1 + Cardinality(Registered)

\* C5: region creation is idempotent: however often createSpeeches runs over
\* a region, initialize is invoked once on every Speech, a region has at most
\* one Speech that was not destroyed, and that one is its registry entry.
C5_CreationIdempotent ==
  /\ \A s \in 1..Len(speeches) : speeches[s].initialized = 1
  /\ \A e \in AllNodes :
       Cardinality({s \in 1..Len(speeches) :
                      speeches[s].rootElement = e /\ ~speeches[s].destroyed}) <= 1
  /\ \A e \in DOMAIN speechRootMap :
       /\ speeches[speechRootMap[e]].rootElement = e
       /\ ~speeches[speechRootMap[e]].destroyed

\* one batch reported a region twice: it was created, then found registered
C5_Witness ==
  /\ Event = "mutations"
  /\ \E s \in Registered : CallsTo("new", s) # {} /\ CallsTo("has", s) # {}

RejectionReasons == {"speech_synthesis_not_supported", "system_not_supported"}

\* C6: when the engine is missing or hasSystemSupport() is false, start()
\* rejects, creates no registry entry and activates no mutation watch, so
\* the registry stays empty whatever the document does afterwards.
C6_RejectedStartLeavesNothing ==
  (called /\ ~Capable) =>
     /\ Len(settleLog) = 1
     /\ settleLog[1] \in RejectionReasons
     /\ speechRootMap = NoProps
     /\ speeches = <<>>
     /\ ~observing
     /\ ~dclListener
     /\ records = <<>>
     /\ uponReadyRuns = 0

\* start() was rejected and the document holds a region under the root
C6_Witness ==
  /\ called
  /\ ~systemSupport
  /\ settleLog = <<"system_not_supported">>
  /\ readyState = "complete"
  /\ MatchingUnderRoot # {}

\* C7: the promise is settled at most once; it is rejected with
\* 'speech_synthesis_not_supported' exactly when the engine is missing, with
\* 'system_not_supported' exactly when the engine is present and
\* hasSystemSupport() is false, and resolved only on a capable host.
C7_StartOutcome ==
  /\ Len(settleLog) <= 1
  /\ settleLog = <<"speech_synthesis_not_supported">>
       <=> (called /\ ~speechSynthesisDefined)
  /\ settleLog = <<"system_not_supported">>
       <=> (called /\ speechSynthesisDefined /\ ~systemSupport)
  /\ settleLog = <<"resolve">> => (called /\ Capable)
  /\ settleLog # <<>> => settleLog[1] \in RejectionReasons \cup {"resolve"}

\* the engine and the system support are both missing: the engine is reported
C7_Witness ==
  /\ ~speechSynthesisDefined
  /\ ~systemSupport
  /\ settleLog = <<"speech_synthesis_not_supported">>

\* C8: on a capable host every start() eventually resolves, whatever the
\* load phase it is called in, and when it has resolved uponReady has run
\* exactly once and the mutation watch is active.
C8_StartEventuallyResolves ==
  /\ (called /\ Capable) ~> Resolved
  /\ [](Resolved => (uponReadyRuns = 1 /\ observing))

\* the stored value is no usable record: the empty or a malformed text, or
\* a JSON text of a non-object
Unusable(it) ==
  \/ it.kind \in {"empty", "malformed"}
  \/ it.kind = "json" /\ it.value.type # "object"

\* JSON.parse rejects the text although it is not empty, or yields null
Discarded(it) ==
  \/ it.kind = "malformed"
  \/ it.kind = "json" /\ it.value.type = "null"

\* C9 (as stated): a read that finds an unusable stored value returns
\* exactly the defaults and removes the value from the store.
C9_UnusableValueRemoved ==
  (Event = "getUtteranceOptions()" /\ Unusable(lastRead.item)) =>
     /\ lastRead.options = EffectiveOptions(NoItem, customDefaultUtteranceOptions)
     /\ item = NoItem

\* C9 (amended): a read that finds an unusable stored value returns exactly
\* the defaults; it removes the value when the text is malformed and not
\* empty or parses to null, and leaves it in the store when it is the empty
\* string or parses to another non-object.
C9_UnusableValueIgnored ==
  (Event = "getUtteranceOptions()" /\ Unusable(lastRead.item)) =>
     /\ lastRead.options = EffectiveOptions(NoItem, customDefaultUtteranceOptions)
     /\ item = IF Discarded(lastRead.item) THEN NoItem ELSE lastRead.item

\* a malformed text was read with caller's defaults set, and is gone
C9_Witness ==
  /\ Event = "getUtteranceOptions()"
  /\ lastRead.item = MalformedText
  /\ item = NoItem
  /\ customDefaultUtteranceOptions = [rate |-> MaxNum]
  /\ lastRead.options = [pitch |-> 1, rate |-> MaxNum, languageVoices |-> VoicesEmpty]

\* C10: each of pitch, rate and languageVoices of the effective record comes
\* from the stored record if the key is present there, otherwise from the
\* caller's defaults if present there, otherwise from the built-in defaults.
C10_Precedence ==
  Event = "getUtteranceOptions()" =>
    \A k \in DOMAIN DEFAULT_UTTERANCE_OPTIONS :
      /\ k \in DOMAIN lastRead.options
      /\ lastRead.options[k] =
           EffectiveOptions(lastRead.item, customDefaultUtteranceOptions)[k]

\* the three sources each supply one key: pitch is stored, rate is the
\* caller's, languageVoices is built in
C10_Witness ==
  /\ Event = "getUtteranceOptions()"
  /\ lastRead.item = JsonText("object", [pitch |-> 0])
  /\ customDefaultUtteranceOptions = [rate |-> MaxNum]
  /\ lastRead.options = [pitch |-> 0, rate |-> MaxNum, languageVoices |-> VoicesEmpty]

\* node n is in the document: under the managed root
InDocument(ch, n) == Root \in InclusiveAncestors(ch, n)

\* the element nodes the queued records report removed
RemovedNodes == UNION {Range(ElementsOf(records[i].removedNodes)) : i \in 1..Len(records)}

\* the element nodes the queued records report added
AddedNodes == UNION {Range(ElementsOf(records[i].addedNodes)) : i \in 1..Len(records)}

\* e left the document with the queued batch: it, or a node that contains
\* it, is reported removed, neither is reported added, and it is not under
\* the managed root now
RemovedWithBatch(e) ==
  /\ ~InDocument(children, e)
  /\ RemovedNodes \cap InclusiveAncestors(children, e) # {}
  /\ AddedNodes \cap InclusiveAncestors(children, e) = {}

\* a step of the MutationObserver callback
BatchHandled == records # <<>> /\ records' = <<>>

\* C11: when a registered region has left the document with a batch, because
\* it or an ancestor of it was removed, then at the end of the callback on
\* that batch its Speech is destroyed and the region has no registry entry,
\* whether the Speech was playing or not.
C11_RemovedRegionDestroyed ==
  [][BatchHandled =>
       \A e \in DOMAIN speechRootMap :
         RemovedWithBatch(e) =>
           /\ e \notin DOMAIN speechRootMap'
           /\ speeches'[speechRootMap[e]].destroyed]_vars

\* a comes before b in document order: a contains b, or the subtree with a
\* comes before the subtree with b among the children of a common ancestor
Precedes(ch, a, b) ==
  /\ a # b
  /\ \/ a \in InclusiveAncestors(ch, b)
     \/ \E p \in AllNodes : \E i, j \in 1..Len(ch[p]) :
          /\ i < j
          /\ ch[p][i] \in InclusiveAncestors(ch, a)
          /\ ch[p][j] \in InclusiveAncestors(ch, b)

\* the descendants of root that match the selector
MatchingDescendants(ch, m, root) ==
  {n \in Nodes : n # root /\ root \in InclusiveAncestors(ch, n) /\ matches(m, n)}

C12_Located ==
  Event = "findContentRoots" =>
    LET root == calls[1].arg.root
        found == calls[1].arg.found
    IN IF matches(matching, root)
       THEN found = <<root>>
       ELSE /\ Range(found) = MatchingDescendants(children, matching, root)
            /\ \A i, j \in 1..Len(found) :
                 i < j => Precedes(children, found[i], found[j])

\* C12: findContentRoots( root, selector ) returns [ root ] when root matches
\* the selector and otherwise every matching descendant of root, each once,
\* in document order; a call changes nothing of the document, the registry,
\* the Speech instances or the store, and its result is a function of the
\* tree it is called on.
C12_LocateContract ==
  /\ []C12_Located
  /\ [][Event' = "findContentRoots" =>
          /\ UNCHANGED <<domVars, loadVars, storeVars, speechRootMap, speeches>>
          /\ calls'[1].arg.found =
               findContentRoots(children, matching, calls'[1].arg.root)]_vars

\* the root does not match and two regions are under it, element 2 before
\* element 1 in document order
C12_Witness ==
  /\ Event = "findContentRoots"
  /\ calls[1].arg.root = Root
  /\ calls[1].arg.found = <<2, 1>>

\* C13: the handler of a 'change:playing' event sends no stop to the Speech
\* that emitted it; when the event reports the end of playing the handler
\* sends nothing at all, and when it reports the start every other Speech
\* gets at most one stop, and the only other entries of the handler's log
\* are the 'change:playing' false events of the Speeches stopped while
\* playing, each right after its stop: the handling ends after at most two
\* entries for every other registered Speech.
C13_NoSelfStopNoCascade ==
  Event = "change:playing" =>
    LET b == calls[1].speech
    IN /\ CallsTo("stop", b) = {}
       /\ calls[1].arg.playing = 0 => Len(calls) = 1
       /\ \A s \in 1..Len(speeches) : Cardinality(CallsTo("stop", s)) <= 1
       /\ \A i \in 2..Len(calls) :
            \/ calls[i].op = "stop"
            \/ /\ calls[i].op = "change:playing"
               /\ calls[i].arg.playing = 0
               /\ calls[i - 1] = Call("stop", calls[i].speech, [playing |-> 1])
       /\ Len(calls) <= 1 + 2 * Cardinality(Registered \ {b})

\* a Speech started playing, the one playing before was stopped and its
\* 'change:playing' false event was handled inside the first handler
C13_Witness ==
  /\ Event = "change:playing"
  /\ calls[1].arg.playing = 1
  /\ \E i \in 3..Len(calls) : calls[i].op = "change:playing" /\ calls[i].arg.playing = 0

\* the registry entries whose value is the Speech s
EntriesOf(s) == {e \in DOMAIN speechRootMap : speechRootMap[e] = s}

\* C14: every Speech that was initialized and not destroyed is the value of
\* exactly one registry entry, no destroyed Speech is the value of an entry,
\* and in a handler's log every destroy is followed at once by the delete of
\* that Speech's entry, and every delete follows such a destroy.
C14_RegistryHoldsTheLive ==
  /\ \A s \in 1..Len(speeches) :
       (speeches[s].initialized >= 1 /\ ~speeches[s].destroyed)
         => Cardinality(EntriesOf(s)) = 1
  /\ \A s \in 1..Len(speeches) : speeches[s].destroyed => EntriesOf(s) = {}
  /\ \A i \in 1..Len(calls) :
       /\ calls[i].op = "destroy" =>
            i < Len(calls) /\ calls[i + 1] = Call("delete", calls[i].speech, NoProps)
       /\ calls[i].op = "delete" =>
            i > 1 /\ calls[i - 1] = Call("destroy", calls[i].speech, NoProps)

\* a batch removed one of two registered regions: its Speech is destroyed
\* and unregistered, the other one is still registered
C14_Witness ==
  /\ Event = "mutations"
  /\ \E s \in 1..Len(speeches) : CallsTo("destroy", s) # {} /\ speeches[s].destroyed
  /\ \E s \in Registered : CallsTo("new", s) = {}

\* in every step, a Speech that exists keeps its initialize count, one that
\* is not registered does not become registered, one that leaves the registry
\* is destroyed by that step and a destroyed one does not change any more;
\* and an element that gets an entry, or another entry than it had, gets a
\* Speech constructed in that step for it, initialized once
EntryLifecycle ==
  /\ \A s \in 1..Len(speeches) :
       /\ speeches'[s].initialized = speeches[s].initialized
       /\ s \notin Registered => s \notin Registered'
       /\ (s \in Registered /\ s \notin Registered') => speeches'[s].destroyed
       /\ speeches[s].destroyed => speeches'[s] = speeches[s]
  /\ \A e \in DOMAIN speechRootMap' :
       (e \notin DOMAIN speechRootMap \/ speechRootMap'[e] # speechRootMap[e]) =>
         LET s == speechRootMap'[e]
         IN /\ s > Len(speeches)
            /\ speeches'[s].rootElement = e
            /\ speeches'[s].initialized = 1
            /\ ~speeches'[s].destroyed

\* the region e, which has a Speech from an earlier time in the document, is
\* put into the document by the queued batch: it, or a node that contains it,
\* is reported added
ReaddedWithBatch(e) ==
  /\ e \in DOMAIN speechRootMap
  /\ InDocument(children, e)
  /\ AddedNodes \cap InclusiveAncestors(children, e) # {}

\* C15: a registry entry goes from absent to active with a Speech constructed
\* for it and initialized once, and from active to absent with the destroy of
\* that Speech, which is never registered or initialized again; and a region
\* that was removed and is added again is served, at the end of the callback,
\* by a Speech constructed in that callback, its earlier Speech destroyed.
C15_EntryLifecycle ==
  [][/\ EntryLifecycle
     /\ BatchHandled =>
          \A e \in Elements :
            ReaddedWithBatch(e) =>
              /\ e \in DOMAIN speechRootMap'
              /\ speechRootMap'[e] > Len(speeches)
              /\ speeches'[speechRootMap'[e]].initialized = 1
              /\ speeches'[speechRootMap[e]].destroyed]_vars

\* C16: an event a Speech emits after it was destroyed reaches no handler of
\* the manager: the step of the event sends no command (the log holds the
\* event alone), changes no registered Speech and leaves the store as it was.
C16_DestroyedIsUnsubscribed ==
  [][(/\ Event' \in {"change:playing", "sharedStateChange"}
      /\ calls'[1].speech \in 1..Len(speeches)
      /\ speeches[calls'[1].speech].destroyed) =>
        /\ Len(calls') = 1
        /\ item' = item
        /\ \A s \in Registered : speeches'[s] = speeches[s]]_vars

\* record i of the queued batch reports e added, or removed
AddedAt(i, e) == e \in Range(records[i].addedNodes)
RemovedAt(i, e) == e \in Range(records[i].removedNodes)

\* record k reports a node added, or removed, that contains e now
ContainerAddedAt(k, e) ==
  \E n \in InclusiveAncestors(children, e) \ {e} : AddedAt(k, n)
ContainerRemovedAt(k, e) ==
  \E n \in InclusiveAncestors(children, e) \ {e} : RemovedAt(k, n)

\* record j is the last one that names e and reports it removed, and an
\* earlier one reports it added
AddedThenRemoved(j, e) ==
  /\ RemovedAt(j, e)
  /\ \E i \in 1..(j - 1) : AddedAt(i, e)
  /\ \A k \in (j + 1)..Len(records) : ~AddedAt(k, e)

\* record j is the last one that names e and reports it added, and an
\* earlier one reports it removed
RemovedThenAdded(j, e) ==
  /\ AddedAt(j, e)
  /\ \E i \in 1..(j - 1) : RemovedAt(i, e)
  /\ \A k \in (j + 1)..Len(records) : ~RemovedAt(k, e)

\* at the end of the callback e has no entry and a Speech of e was destroyed
\* by the callback
EndsDestroyed(e) ==
  /\ e \notin DOMAIN speechRootMap'
  /\ \E s \in 1..Len(speeches') :
       /\ speeches'[s].rootElement = e
       /\ speeches'[s].destroyed
       /\ \E i \in 1..Len(calls') : calls'[i] = Call("destroy", s, NoProps)

\* at the end of the callback e has one entry, with a Speech the callback
\* constructed and initialized once, and the Speech it had before is destroyed
EndsFresh(e) ==
  /\ e \in DOMAIN speechRootMap'
  /\ speechRootMap'[e] > Len(speeches)
  /\ speeches'[speechRootMap'[e]].initialized = 1
  /\ ~speeches'[speechRootMap'[e]].destroyed
  /\ \A x \in DOMAIN speechRootMap' : speechRootMap'[x] = speechRootMap'[e] => x = e
  /\ e \in DOMAIN speechRootMap => speeches'[speechRootMap[e]].destroyed

\* C17 (as stated): the callback works through the records of a batch in
\* their order, and the registry shows the last change reported for a node:
\* a matching element reported added and later removed has no registry entry
\* at the end and its Speech was destroyed; one reported removed and later
\* added has one entry at the end, with a Speech that the callback
\* constructed.
C17_LastReportDecides ==
  [][BatchHandled =>
       \A e \in matching : \A j \in 1..Len(records) :
         /\ AddedThenRemoved(j, e) => EndsDestroyed(e)
         /\ RemovedThenAdded(j, e) => EndsFresh(e)]_vars

\* C17 (amended): the same, as long as the batch does not go on to report a
\* node that contains the element: added and later removed, with no node
\* that contains it reported added afterwards, it ends without an entry and
\* destroyed; removed and later added, with no node that contains it
\* reported removed in that record or afterwards, it ends with one entry and
\* a Speech that the callback constructed.
C17_BatchInReportedOrder ==
  [][BatchHandled =>
       \A e \in matching : \A j \in 1..Len(records) :
         /\ (/\ AddedThenRemoved(j, e)
             /\ \A k \in (j + 1)..Len(records) : ~ContainerAddedAt(k, e))
              => EndsDestroyed(e)
         /\ (/\ RemovedThenAdded(j, e)
             /\ \A k \in j..Len(records) : ~ContainerRemovedAt(k, e))
              => EndsFresh(e)]_vars

\* a registered region was moved: the callback destroyed its Speech and then
\* constructed the one that is registered now
C17_Witness ==
  /\ Event = "mutations"
  /\ \E i, j \in 1..Len(calls) :
       /\ i < j
       /\ calls[i].op = "destroy"
       /\ calls[j].op = "new"
       /\ speeches[calls[i].speech].rootElement = speeches[calls[j].speech].rootElement
       /\ calls[j].speech \in Registered

\* the registered Speeches of the peer
PeerRegistered == {peer.map[e] : e \in DOMAIN peer.map}

\* no storage event is waiting in either context
Delivered == storageEvents = <<>> /\ peer.storageEvents = <<>>

\* C18: when the Speeches of two contexts have changed the preferences in
\* any interleaving and every storage event has been dispatched and handled,
\* the store holds the record written last and every registered Speech of
\* both contexts holds that record.
C18_LastWriteWins ==
  (Delivered /\ item # NoItem) =>
    /\ item.kind = "json"
    /\ item.value.type = "object"
    /\ item.value.props \in SharedStates
    /\ \A s \in Registered : speeches[s].state = item.value.props
    /\ \A s \in PeerRegistered : peer.speeches[s].state = item.value.props

\* the peer has handled the last storage event waiting: both contexts have
\* registered Speeches, and this context's hold a record that differs from
\* the defaults they were constructed with
C18_Witness ==
  /\ Event = "peer:storage"
  /\ Delivered
  /\ Cardinality(Registered) >= 2
  /\ Cardinality(PeerRegistered) >= 2
  /\ item = JSONstringify([pitch |-> 0, rate |-> 1, languageVoices |-> VoicesEn])
  /\ \A s \in Registered : speeches[s].state = item.value.props

\* entry i of the handler's log constructs a Speech with the effective
\* options of the store and the caller's defaults, and the next entries are
\* its registration, the wiring of its two handlers and its initialize
ConstructedAt(i) ==
  LET s == calls[i].speech
  IN /\ calls[i].arg = EffectiveOptions(item, customDefaultUtteranceOptions)
     /\ i + 4 <= Len(calls)
     /\ calls[i + 1] = Call("set", s, NoProps)
     /\ calls[i + 2] = Call("on:change:playing", s, NoProps)
     /\ calls[i + 3] = Call("on:sharedStateChange", s, NoProps)
     /\ calls[i + 4] = Call("initialize", s, NoProps)
     /\ CallsTo("initialize", s) = {i + 4}

\* the Speeches registered before the handler constructed one at entry i
\* hold the options it was constructed with
SameAsRegistered(i) ==
  \A s \in Registered : CallsTo("new", s) = {} => speeches[s].state = calls[i].arg

\* C19 (as stated): every Speech is constructed with the effective options
\* at that moment, registered and wired before its initialize, and starts
\* with the options the registered Speeches hold.
C19_CreatedLikeRegistered ==
  \A i \in 1..Len(calls) :
    calls[i].op = "new" => (ConstructedAt(i) /\ SameAsRegistered(i))

\* C19 (amended): every Speech is constructed with the effective options at
\* that moment, registered and wired before its initialize; it starts with
\* the options the registered Speeches hold when no storage event is waiting
\* to be dispatched, and until then it may be ahead of them by the record
\* another context has stored.
C19_CreatedWithEffective ==
  \A i \in 1..Len(calls) :
    calls[i].op = "new" =>
      /\ ConstructedAt(i)
      /\ storageEvents = <<>> => SameAsRegistered(i)

\* a region was added after a Speech had changed the preferences: the new
\* Speech starts with the stored record, which the registered one holds
C19_Witness ==
  /\ Event = "mutations"
  /\ storageEvents = <<>>
  /\ item = JSONstringify([pitch |-> 0, rate |-> 1, languageVoices |-> VoicesEn])
  /\ \E i \in 1..Len(calls) :
       /\ calls[i].op = "new"
       /\ calls[i].arg = item.value.props
       /\ \E s \in Registered : CallsTo("new", s) = {} /\ speeches[s].state = calls[i].arg

\* C20: when the page unloads after start() has resolved, the unload event
\* issues a cancel to the speech engine, whatever the registry holds.
C20_UnloadCancels ==
  (Unloaded /\ Resolved) =>
    \E i \in 2..Len(calls) : calls[i] = Call("cancel", 0, NoProps)

\* the page unloaded after start() had resolved on a document without
\* regions: the registry is empty and the engine got the cancel
C20_Witness ==
  /\ Unloaded
  /\ Resolved
  /\ speechRootMap = NoProps
  /\ Len(calls) = 2
  /\ calls[2] = Call("cancel", 0, NoProps)

====
